---- MODULE Spec2Model ----
(***************************************************************************)
(* Model of the MJPEG streaming server of src/src/main.cpp: the handler    *)
(* stream_handler, one action per block of its loop, together with the     *)
(* camera driver's lease bookkeeping, the heap, the serial log and the     *)
(* chunked transport it calls.                                             *)
(*                                                                         *)
(* The calls into the camera driver, the JPEG converter and the HTTP       *)
(* server are environment steps: their results are chosen with \E from     *)
(* the outcomes their interfaces allow.  frame2jpg follows the driver's    *)
(* contract: it stores into its out-parameters only when it returns true.  *)
(***************************************************************************)
EXTENDS Integers, Sequences, FiniteSets

VARIABLES
    pc,               \* position of the server task inside stream_handler
    fb,               \* camera_fb_t * fb
    res,              \* esp_err_t res
    _jpg_buf,         \* uint8_t * _jpg_buf
    _jpg_buf_len,     \* size_t _jpg_buf_len
    frame_count,      \* uint32_t frame_count
    last_frame_time,  \* unsigned long last_frame_time
    leased,           \* camera driver: the frame buffers out on lease
    allocated,        \* heap: the live malloc'ed buffers
    clock,            \* millis()
    sessions,         \* invocations of stream_handler so far
    trace,            \* calls made by the current invocation, in order
    retval,           \* value returned by the current invocation, once it returned
    routes,           \* URIs registered on stream_httpd
    status,           \* what index_handler sent, if a status request came last
    wraps,            \* times frame_count passed 2^32 - 1 in this invocation
    waiting,          \* URIs requested while the server task was in a handler
    err,              \* result of esp_camera_init, once it was called
    wifi_status,      \* WiFi.status() as setup read it last
    wifi_attempts     \* polls of the WiFi status made by setup

vars == <<pc, fb, res, _jpg_buf, _jpg_buf_len, frame_count, last_frame_time,
          leased, allocated, clock, sessions, trace, retval, routes, status, wraps,
          waiting, err, wifi_status, wifi_attempts>>

(***************************************************************************)
(* Bounds of the model: frames acquired per observed invocation, and       *)
(* invocations of stream_handler.                                          *)
(***************************************************************************)
MaxFrames == 3
MaxSessions == 2

(***************************************************************************)
(* uint32_t and unsigned long (both 32 bits on the target).  A value u is  *)
(* held as the integer congruent to u modulo 2^32 in -2^31 .. 2^31 - 1, so *)
(* 2^32 - 1 is held as -1 and every operation below is exact modulo 2^32.  *)
(***************************************************************************)
MaxInt32 == 2147483647
MinInt32 == -MaxInt32 - 1

\* 2^32 \div m and 2^32 % m, from 2^32 = 2 * MaxInt32 + 2.
Pow32Div(m) == 2 * (MaxInt32 \div m) + (2 * (MaxInt32 % m) + 2) \div m
Pow32Mod(m) == (2 * (MaxInt32 % m) + 2) % m

\* u + 1, u + b (b >= 0) and a - b, modulo 2^32.
Inc32(x) == IF x = MaxInt32 THEN MinInt32 ELSE x + 1
Add32(a, b) ==
    IF a > MaxInt32 - b THEN (a - MaxInt32 - 1) + (b - MaxInt32 - 1) ELSE a + b
Sub32(a, b) ==
    IF a >= 0 /\ b < 0 /\ a > MaxInt32 + b
        THEN (a - MaxInt32 - 1) - (b + MaxInt32 + 1)
    ELSE IF a < 0 /\ b >= 0 /\ a < MinInt32 + b
        THEN (a + MaxInt32 + 1) - (b - MaxInt32 - 1)
    ELSE a - b

\* u % m and u / m of the unsigned value, for 0 < m < 2^15.
Mod32(x, m) == IF x >= 0 THEN x % m ELSE ((x % m) + Pow32Mod(m)) % m
Div32(x, m) == IF x >= 0 THEN x \div m ELSE Pow32Div(m) + (Pow32Mod(m) + x) \div m

(***************************************************************************)
(* Program constants.                                                      *)
(***************************************************************************)
PartBufSize == 128
PartFixedLen == 46
BoundaryLen == 36
ReportEvery == 100
FrameDelayMs == 33
Jpeg_Quality == 80

ESP_OK == "ESP_OK"
ESP_FAIL == "ESP_FAIL"
PIXFORMAT_JPEG == "PIXFORMAT_JPEG"

\* Error codes httpd_resp_send_chunk and httpd_resp_set_type can return.
HttpdErrs == {"ESP_ERR_HTTPD_RESP_SEND", "ESP_ERR_HTTPD_INVALID_REQ"}

\* Frames the camera driver can hand out: format and fb->len.
CameraFrames ==
    { [format |-> PIXFORMAT_JPEG, len |-> 0],
      [format |-> PIXFORMAT_JPEG, len |-> 10],
      [format |-> "PIXFORMAT_RGB565", len |-> 20] }

\* Lengths a successful frame2jpg can produce.
Frame2JpgLens == {9, 123}

\* A buffer is named by the invocation and the acquisition that obtained it:
\* no two buffers the program ever holds share a name.
NULL == [kind |-> "null", id |-> <<0, 0>>, size |-> 0]
FbNull == [id |-> <<0, 0>>, format |-> "none", len |-> 0]

\* fb->buf: the payload of a leased frame buffer.
FbBuf(f) == [kind |-> "fb", id |-> f.id, size |-> f.len]

\* A buffer malloc'ed by frame2jpg.
HeapBuf(i, n) == [kind |-> "heap", id |-> i, size |-> n]

(***************************************************************************)
(* printf's %u and its inverse, on decimal digit sequences.                *)
(***************************************************************************)
RECURSIVE Digits(_)
Digits(n) == IF n < 10 THEN <<n>> ELSE Append(Digits(n \div 10), n % 10)

RECURSIVE ParseUnsigned(_)
ParseUnsigned(ds) ==
    IF ds = <<>> THEN 0
    ELSE ParseUnsigned(SubSeq(ds, 1, Len(ds) - 1)) * 10 + ds[Len(ds)]

\* The decimal digits of a uint32_t, held as the other 32-bit values are.
Digits32(x) == IF x >= 0 THEN Digits(x) ELSE Append(Digits(Div32(x, 10)), Mod32(x, 10))

\* snprintf(part_buf, 128, _STREAM_PART, n) limited to 50 bytes.
StreamPart_SmallBuffer(n) ==
    LET ds   == Digits32(n)
        full == PartFixedLen + Len(ds)
    IN  [digits |-> ds, hlen |-> full,
         written |-> IF full < 50 THEN full ELSE 49]

\* snprintf(part_buf, 128, _STREAM_PART, n): the digits rendered for %u, the
\* value snprintf returns, which is the length of the complete rendering,
\* and the characters it put into part_buf.  size_t and unsigned are both
\* 32 bits wide on the target, so %u renders n itself.
StreamPart(n) ==
    LET ds   == Digits32(n)
        full == PartFixedLen + Len(ds)
    IN  [digits |-> ds, hlen |-> full,
         written |-> IF full < PartBufSize THEN full ELSE PartBufSize - 1]

\* One entry of the call trace: the call, the number of the acquisition it
\* belongs to, the pointer and the length passed, the digits of a rendered
\* header, and the call's result.
Ev(op, k, p, n, ds, r) ==
    [op |-> op, frame |-> k, ptr |-> p, len |-> n, digits |-> ds, res |-> r]

\* Serial.println of one of the fixed messages.
Log(op, k) == Ev(op, k, NULL, 0, <<>>, "")

\* esp_camera_fb_return(f): the driver takes the lease back.
FbReturn(ids, f) == ids \ {f.id}

\* WiFi.status(), and the polls setup makes of it.
WL_CONNECTED == "WL_CONNECTED"
WL_DISCONNECTED == "WL_DISCONNECTED"
MaxWifiAttempts == 30

\* Values ESP.getFreeHeap() can return.
FreeHeaps == {0, 123456}

\* The status page of lines 231-246: sizeof(html_page), the characters of the
\* format outside its six conversions, strlen(device_name), the longest
\* dotted quad of WiFi.localIP() and the length of WiFi.macAddress().
HtmlPageSize == 2048
StatusFixedLen == 488
DeviceNameLen == 11
IpLen == 15
MacLen == 17

\* snprintf(html_page, 2048, ...) and httpd_resp_send(req, html_page,
\* strlen(html_page)): the digits rendered for %u and %lu, the bytes sent,
\* whether the buffer holds the whole rendering, the sends made, the result.
StatusResponse(heap, uptime, n, r) ==
    LET hd   == Digits(heap)
        ud   == Digits(uptime)
        full == StatusFixedLen + 2 * DeviceNameLen + IpLen + MacLen + Len(hd) + Len(ud)
    IN  [uptime |-> uptime, heap |-> heap, sends |-> n, res |-> r,
         heapDigits |-> hd, uptimeDigits |-> ud,
         len |-> IF full < HtmlPageSize THEN full ELSE HtmlPageSize - 1,
         complete |-> full < HtmlPageSize]

\* No status request since the last stream request.
NoStatus == [uptime |-> 0, heap |-> 0, sends |-> 0, res |-> "none",
             heapDigits |-> <<>>, uptimeDigits |-> <<>>, len |-> 0, complete |-> FALSE]

\* Frames acquired so far in the observed part of the invocation.
Acquired == Cardinality({i \in 1..Len(trace) : trace[i].op = "fb_get"
                                               /\ trace[i].res = "ok"})

\* fps as printed with %.1f, in tenths: 100000.0 / elapsed rounded to one
\* decimal; the division by 0.0 gives inf and is printed as such.
Fps(elapsed) ==
    IF elapsed = 0 THEN [inf |-> TRUE, tenths |-> 0]
    ELSE IF elapsed < 0 THEN [inf |-> FALSE, tenths |-> 0]
    ELSE LET q == 1000000 \div elapsed
             r == 1000000 % elapsed
         IN  [inf |-> FALSE, tenths |-> IF r >= elapsed - r THEN q + 1 ELSE q]

Init ==
    /\ pc = "setup"
    /\ fb = FbNull
    /\ res = ESP_OK
    /\ _jpg_buf = NULL
    /\ _jpg_buf_len = 0
    /\ frame_count = 0
    /\ last_frame_time = 0
    /\ leased = {}
    /\ allocated = {}
    /\ clock = 0
    /\ sessions = 0
    /\ trace = <<>>
    /\ retval = "none"
    /\ routes = {}
    /\ status = NoStatus
    /\ wraps = 0
    /\ waiting = {}
    /\ err = "none"
    /\ wifi_status = "WL_IDLE_STATUS"
    /\ wifi_attempts = 0

(***************************************************************************)
(* States of a running invocation at the top of the loop (line 164), after *)
(* more iterations than the model follows step by step.  The statements    *)
(* between two delays are taken to run within one millisecond, so a frame  *)
(* is acquired every FrameDelayMs.                                         *)
(*   first window    : 98 frames after an entry at millis() = 0            *)
(*   later window    : 198 frames after it, the report of frame 100 made   *)
(*   clock wrapped   : 98 frames after an entry at millis() = 2^32 - 100   *)
(*   clock came back : millis() modulo 2^32 is 33 ms short of the window   *)
(*                     start, two iterations before a report               *)
(*   counter at top  : 2^32 - 2 frames, the last report 94 frames ago      *)
(***************************************************************************)
RunningSessions ==
    { [frame_count |-> 98,  last_frame_time |-> 0,    clock |-> 3234, sessions |-> MaxSessions - 1],
      [frame_count |-> 198, last_frame_time |-> 3267, clock |-> 6534, sessions |-> MaxSessions],
      [frame_count |-> 98,  last_frame_time |-> -100, clock |-> 3134, sessions |-> MaxSessions],
      [frame_count |-> 98,  last_frame_time |-> 5000, clock |-> 4967, sessions |-> MaxSessions],
      [frame_count |-> -2,  last_frame_time |-> 1000, clock |-> 4102, sessions |-> MaxSessions] }

InitMid ==
    \/ Init
    \/ /\ pc = "get"
       /\ \E m \in RunningSessions :
             /\ frame_count = m.frame_count
             /\ last_frame_time = m.last_frame_time
             /\ clock = m.clock
             /\ sessions = m.sessions
       /\ fb = FbNull
       /\ res = ESP_OK
       /\ _jpg_buf = NULL
       /\ _jpg_buf_len = 0
       /\ leased = {}
       /\ allocated = {}
       /\ trace = <<>>
       /\ retval = "none"
       /\ routes = {"/", "/stream"}
       /\ status = NoStatus
       /\ wraps = 0
       /\ waiting = {}
       /\ err = ESP_OK
       /\ wifi_status = WL_CONNECTED
       /\ wifi_attempts = 0

\* Lines 335-340 without the return.
CameraInit_IgnoresError ==
    /\ pc = "setup"
    /\ pc' = "wifi"
    /\ \E e \in {ESP_OK, ESP_FAIL} : err' = e
    /\ UNCHANGED <<fb, res, _jpg_buf, _jpg_buf_len, frame_count, last_frame_time,
                   leased, allocated, clock, sessions, trace, retval, routes, status,
                   wraps, waiting, wifi_status, wifi_attempts>>

(***************************************************************************)
(* setup, lines 292-404.  Lines 335-340: esp_camera_init, and the return   *)
(* when it failed; the sensor settings of lines 344-371 change nothing     *)
(* here, and WiFi.begin of line 374 starts the association.                *)
(***************************************************************************)
CameraInit ==
    /\ pc = "setup"
    /\ \E e \in {ESP_OK, ESP_FAIL} :
          /\ err' = e
          /\ pc' = IF e = ESP_OK THEN "wifi" ELSE "halt"
    /\ UNCHANGED <<fb, res, _jpg_buf, _jpg_buf_len, frame_count, last_frame_time,
                   leased, allocated, clock, sessions, trace, retval, routes, status,
                   wraps, waiting, wifi_status, wifi_attempts>>

\* Lines 378-382: one test of the loop condition, and delay(500) with the
\* count of the attempt when it holds.
WifiPoll ==
    /\ pc = "wifi"
    /\ \E st \in {WL_CONNECTED, WL_DISCONNECTED} :
          /\ wifi_status' = st
          /\ IF st # WL_CONNECTED /\ wifi_attempts < MaxWifiAttempts
             THEN /\ wifi_attempts' = wifi_attempts + 1
                  /\ pc' = "wifi"
             ELSE /\ pc' = "wifi_check"
                  /\ UNCHANGED wifi_attempts
    /\ UNCHANGED <<fb, res, _jpg_buf, _jpg_buf_len, frame_count, last_frame_time,
                   leased, allocated, clock, sessions, trace, retval, routes, status,
                   wraps, waiting, err>>

\* Lines 384-403: the status is read again; startCameraServer is called when
\* it is WL_CONNECTED, and setup returns without it otherwise.
WifiCheck ==
    /\ pc = "wifi_check"
    /\ \E st \in {WL_CONNECTED, WL_DISCONNECTED} :
          /\ wifi_status' = st
          /\ pc' = IF st = WL_CONNECTED THEN "boot" ELSE "halt"
    /\ UNCHANGED <<fb, res, _jpg_buf, _jpg_buf_len, frame_count, last_frame_time,
                   leased, allocated, clock, sessions, trace, retval, routes, status,
                   wraps, waiting, err, wifi_attempts>>

(***************************************************************************)
(* startCameraServer, lines 259-290: both handlers are registered on the   *)
(* one server instance when httpd_start succeeds, none when it fails.      *)
(* setup returns after it, and its count of polls goes with it.            *)
(***************************************************************************)
StartCameraServer ==
    /\ pc = "boot"
    /\ pc' = "idle"
    /\ \E r \in {ESP_OK, ESP_FAIL} :
          routes' = IF r = ESP_OK THEN {"/", "/stream"} ELSE {}
    /\ UNCHANGED <<fb, res, _jpg_buf, _jpg_buf_len, frame_count, last_frame_time,
                   leased, allocated, clock, sessions, trace, retval, status, wraps, waiting,
                   err, wifi_status>>
    /\ wifi_attempts' = 0

\* Lines 228-257 run by a task of their own, whatever the stream does.
IndexHandler_OnOwnTask ==
    /\ "/" \in routes
    /\ \E heap \in FreeHeaps, r \in {ESP_OK} \cup HttpdErrs :
          status' = StatusResponse(heap, Div32(clock, 1000), 1, r)
    /\ UNCHANGED <<pc, fb, res, _jpg_buf, _jpg_buf_len, frame_count, last_frame_time,
                   leased, allocated, clock, sessions, trace, retval, routes, wraps>>
    /\ waiting' = waiting \ {"/"}
    /\ UNCHANGED <<err, wifi_status, wifi_attempts>>

\* Lines 228-257 with the response sent a second time.
IndexHandler_SendsTwice ==
    /\ pc = "idle"
    /\ "/" \in routes
    /\ \E heap \in FreeHeaps, r \in {ESP_OK} \cup HttpdErrs :
          status' = StatusResponse(heap, Div32(clock, 1000), 2, r)
    /\ UNCHANGED <<pc, fb, res, _jpg_buf, _jpg_buf_len, frame_count, last_frame_time,
                   leased, allocated, clock, sessions, trace, retval, routes, wraps>>
    /\ waiting' = waiting \ {"/"}
    /\ UNCHANGED <<err, wifi_status, wifi_attempts>>

\* Lines 228-257 with the uptime of a snapshot taken when the server started.
IndexHandler_UptimeAtStart ==
    /\ pc = "idle"
    /\ "/" \in routes
    /\ \E heap \in FreeHeaps, r \in {ESP_OK} \cup HttpdErrs :
          status' = StatusResponse(heap, 0, 1, r)
    /\ UNCHANGED <<pc, fb, res, _jpg_buf, _jpg_buf_len, frame_count, last_frame_time,
                   leased, allocated, clock, sessions, trace, retval, routes, wraps>>
    /\ waiting' = waiting \ {"/"}
    /\ UNCHANGED <<err, wifi_status, wifi_attempts>>

(***************************************************************************)
(* index_handler, lines 228-257: one document rendered from values read at *)
(* the request, one httpd_resp_send, and the return of its result.         *)
(***************************************************************************)
IndexHandler ==
    /\ pc = "idle"
    /\ "/" \in routes
    /\ \E heap \in FreeHeaps, r \in {ESP_OK} \cup HttpdErrs :
          status' = StatusResponse(heap, Div32(clock, 1000), 1, r)
    /\ UNCHANGED <<pc, fb, res, _jpg_buf, _jpg_buf_len, frame_count, last_frame_time,
                   leased, allocated, clock, sessions, trace, retval, routes, wraps>>
    /\ waiting' = waiting \ {"/"}
    /\ UNCHANGED <<err, wifi_status, wifi_attempts>>

\* Lines 142-161 with a frame counter that outlives the invocation.
StreamHandlerEntry_KeepsCounter ==
    /\ pc = "idle"
    /\ "/stream" \in routes
    /\ sessions < MaxSessions
    /\ sessions' = sessions + 1
    /\ \E r \in {ESP_OK} \cup HttpdErrs :
          /\ res' = r
          /\ pc' = IF r = ESP_OK THEN "get" ELSE "return"
    /\ fb' = FbNull
    /\ _jpg_buf' = NULL
    /\ _jpg_buf_len' = 0
    /\ last_frame_time' = clock
    /\ trace' = <<Log("log_connected", 0)>>
    /\ retval' = "none"
    /\ status' = NoStatus
    /\ UNCHANGED <<leased, allocated, clock, routes, frame_count, wraps>>
    /\ waiting' = waiting \ {"/stream"}
    /\ UNCHANGED <<err, wifi_status, wifi_attempts>>

\* Lines 142-161 without the test of line 152.
StreamHandlerEntry_IgnoresSetType ==
    /\ pc = "idle"
    /\ "/stream" \in routes
    /\ sessions < MaxSessions
    /\ sessions' = sessions + 1
    /\ \E r \in {ESP_OK} \cup HttpdErrs : res' = r
    /\ pc' = "get"
    /\ fb' = FbNull
    /\ _jpg_buf' = NULL
    /\ _jpg_buf_len' = 0
    /\ frame_count' = 0
    /\ last_frame_time' = clock
    /\ trace' = <<Log("log_connected", 0)>>
    /\ retval' = "none"
    /\ status' = NoStatus
    /\ wraps' = 0
    /\ UNCHANGED <<leased, allocated, clock, routes>>
    /\ waiting' = waiting \ {"/stream"}
    /\ UNCHANGED <<err, wifi_status, wifi_attempts>>

(***************************************************************************)
(* stream_handler, lines 142-161: the locals, the content type, the CORS   *)
(* headers, the frame counter and the start of the throughput window.      *)
(***************************************************************************)
StreamHandlerEntry ==
    /\ pc = "idle"
    /\ "/stream" \in routes
    /\ sessions < MaxSessions
    /\ sessions' = sessions + 1
    /\ \E r \in {ESP_OK} \cup HttpdErrs :
          /\ res' = r
          /\ pc' = IF r = ESP_OK THEN "get" ELSE "return"
    /\ fb' = FbNull
    /\ _jpg_buf' = NULL
    /\ _jpg_buf_len' = 0
    /\ frame_count' = 0
    /\ last_frame_time' = clock
    /\ trace' = <<Log("log_connected", 0)>>
    /\ retval' = "none"
    /\ status' = NoStatus
    /\ wraps' = 0
    /\ UNCHANGED <<leased, allocated, clock, routes>>
    /\ waiting' = waiting \ {"/stream"}
    /\ UNCHANGED <<err, wifi_status, wifi_attempts>>

\* Lines 164-168 without line 167: res keeps the value of the last write.
CaptureFailed_KeepsRes ==
    /\ fb' = FbNull
    /\ pc' = "return"
    /\ trace' = trace \o << Ev("fb_get", Inc32(frame_count), NULL, 0, <<>>, "null"),
                            Log("log_capture_failed", Inc32(frame_count)) >>
    /\ UNCHANGED <<res, frame_count, leased, wraps>>

\* Lines 164-168: esp_camera_fb_get returned NULL.
CaptureFailed ==
    /\ fb' = FbNull
    /\ res' = ESP_FAIL
    /\ pc' = "return"
    /\ trace' = trace \o << Ev("fb_get", Inc32(frame_count), NULL, 0, <<>>, "null"),
                            Log("log_capture_failed", Inc32(frame_count)) >>
    /\ UNCHANGED <<frame_count, leased, wraps>>

\* Lines 164, 169-170: esp_camera_fb_get leased frame f to the handler.
CaptureOk(f) ==
    LET k  == Inc32(frame_count)
        nf == [id |-> <<sessions, k>>, format |-> f.format, len |-> f.len]
    IN  /\ Acquired < MaxFrames
        /\ wraps' = IF frame_count = -1 THEN wraps + 1 ELSE wraps
        /\ fb' = nf
        /\ leased' = leased \cup {nf.id}
        /\ frame_count' = k
        /\ pc' = "encode"
        /\ trace' = Append(trace, Ev("fb_get", k, FbBuf(nf), nf.len, <<>>, "ok"))
        /\ UNCHANGED res

FbGet ==
    /\ pc = "get"
    /\ \/ CaptureFailed
       \/ \E f \in CameraFrames : CaptureOk(f)
    /\ UNCHANGED <<_jpg_buf, _jpg_buf_len, last_frame_time, allocated,
                   clock, sessions, retval, routes, status, waiting,
                   err, wifi_status, wifi_attempts>>

\* Lines 174-176 without lines 175-176: the lease is kept through the writes.
ConvertOk_KeepsLease(n) ==
    LET out == HeapBuf(<<sessions, frame_count>>, n)
    IN  /\ allocated' = allocated \cup {out.id}
        /\ _jpg_buf' = out
        /\ _jpg_buf_len' = n
        /\ trace' = Append(trace, Ev("frame2jpg", frame_count, out, n, <<>>, "true"))
        /\ UNCHANGED <<res, fb, leased>>

\* Lines 174-176: frame2jpg allocated a JPEG of n bytes; the lease goes back.
ConvertOk(n) ==
    LET out == HeapBuf(<<sessions, frame_count>>, n)
    IN  /\ allocated' = allocated \cup {out.id}
        /\ _jpg_buf' = out
        /\ _jpg_buf_len' = n
        /\ leased' = FbReturn(leased, fb)
        /\ fb' = FbNull
        /\ trace' = trace \o << Ev("frame2jpg", frame_count, out, n, <<>>, "true"),
                                Ev("fb_return", frame_count, FbBuf(fb), 0, <<>>, "") >>
        /\ UNCHANGED res

\* Lines 174-180 without line 179: the failed conversion leaves res alone.
ConvertFailed_KeepsRes ==
    /\ leased' = FbReturn(leased, fb)
    /\ fb' = FbNull
    /\ trace' = trace \o << Ev("frame2jpg", frame_count, NULL, 0, <<>>, "false"),
                            Ev("fb_return", frame_count, FbBuf(fb), 0, <<>>, ""),
                            Log("log_compression_failed", frame_count) >>
    /\ UNCHANGED <<res, _jpg_buf, _jpg_buf_len, allocated>>

\* Lines 174-180: frame2jpg returned false and stored nothing.
ConvertFailed ==
    /\ leased' = FbReturn(leased, fb)
    /\ fb' = FbNull
    /\ res' = ESP_FAIL
    /\ trace' = trace \o << Ev("frame2jpg", frame_count, NULL, 0, <<>>, "false"),
                            Ev("fb_return", frame_count, FbBuf(fb), 0, <<>>, ""),
                            Log("log_compression_failed", frame_count) >>
    /\ UNCHANGED <<_jpg_buf, _jpg_buf_len, allocated>>

\* Lines 181-184 without line 182: the length of an earlier frame is kept.
PassThrough_StaleLen ==
    /\ _jpg_buf' = FbBuf(fb)
    /\ UNCHANGED <<_jpg_buf_len, fb, res, leased, allocated, trace>>

\* Lines 181-184 with the lease given back as for a converted frame.
PassThrough_ReturnsEarly ==
    /\ _jpg_buf_len' = fb.len
    /\ _jpg_buf' = FbBuf(fb)
    /\ leased' = FbReturn(leased, fb)
    /\ fb' = FbNull
    /\ trace' = Append(trace, Ev("fb_return", frame_count, FbBuf(fb), 0, <<>>, ""))
    /\ UNCHANGED <<res, allocated>>

\* Lines 181-184: the frame is JPEG already.
PassThrough ==
    /\ _jpg_buf_len' = fb.len
    /\ _jpg_buf' = FbBuf(fb)
    /\ UNCHANGED <<fb, res, leased, allocated, trace>>

EnsureJpeg ==
    /\ pc = "encode"
    /\ pc' = "hdr"
    /\ IF fb.format # PIXFORMAT_JPEG
       THEN \/ ConvertFailed
            \/ \E n \in Frame2JpgLens : ConvertOk(n)
       ELSE PassThrough
    /\ UNCHANGED <<frame_count, last_frame_time, clock, sessions, retval, routes, status, wraps, waiting,
                   err, wifi_status, wifi_attempts>>

\* httpd_resp_send_chunk(req, buf, n), its result chosen by the transport.
SendChunk(op, p, n, ds) ==
    \E r \in {ESP_OK} \cup HttpdErrs :
        /\ res' = r
        /\ trace' = Append(trace, Ev(op, frame_count, p, n, ds, r))

\* Lines 187-190 followed by the boundary write, the payload write left out.
SendHeader_SkipsPayload ==
    /\ pc = "hdr"
    /\ pc' = "boundary"
    /\ IF res = ESP_OK
       THEN LET part == StreamPart(_jpg_buf_len)
            IN  SendChunk("send_hdr", NULL, part.hlen, part.digits)
       ELSE UNCHANGED <<res, trace>>
    /\ UNCHANGED <<fb, _jpg_buf, _jpg_buf_len, frame_count, last_frame_time,
                   leased, allocated, clock, sessions, retval, routes, status, wraps, waiting,
                   err, wifi_status, wifi_attempts>>

\* Lines 187-190.
SendHeader ==
    /\ pc = "hdr"
    /\ pc' = "payload"
    /\ IF res = ESP_OK
       THEN LET part == StreamPart(_jpg_buf_len)
            IN  SendChunk("send_hdr", NULL, part.hlen, part.digits)
       ELSE UNCHANGED <<res, trace>>
    /\ UNCHANGED <<fb, _jpg_buf, _jpg_buf_len, frame_count, last_frame_time,
                   leased, allocated, clock, sessions, retval, routes, status, wraps, waiting,
                   err, wifi_status, wifi_attempts>>

\* Lines 191-193.
SendPayload ==
    /\ pc = "payload"
    /\ pc' = "boundary"
    /\ IF res = ESP_OK
       THEN SendChunk("send_payload", _jpg_buf, _jpg_buf_len, <<>>)
       ELSE UNCHANGED <<res, trace>>
    /\ UNCHANGED <<fb, _jpg_buf, _jpg_buf_len, frame_count, last_frame_time,
                   leased, allocated, clock, sessions, retval, routes, status, wraps, waiting,
                   err, wifi_status, wifi_attempts>>

\* Lines 194-196 without the test of res.
SendBoundary_Unguarded ==
    /\ pc = "boundary"
    /\ pc' = "release"
    /\ SendChunk("send_boundary", NULL, BoundaryLen, <<>>)
    /\ UNCHANGED <<fb, _jpg_buf, _jpg_buf_len, frame_count, last_frame_time,
                   leased, allocated, clock, sessions, retval, routes, status, wraps, waiting,
                   err, wifi_status, wifi_attempts>>

\* Lines 194-196.
SendBoundary ==
    /\ pc = "boundary"
    /\ pc' = "release"
    /\ IF res = ESP_OK
       THEN SendChunk("send_boundary", NULL, BoundaryLen, <<>>)
       ELSE UNCHANGED <<res, trace>>
    /\ UNCHANGED <<fb, _jpg_buf, _jpg_buf_len, frame_count, last_frame_time,
                   leased, allocated, clock, sessions, retval, routes, status, wraps, waiting,
                   err, wifi_status, wifi_attempts>>

\* Lines 198-205 with the lease given back only after a delivered frame.
ReleaseFrame_OnlyOnSuccess ==
    /\ pc = "release"
    /\ pc' = "check"
    /\ IF fb # FbNull /\ res = ESP_OK
       THEN /\ leased' = FbReturn(leased, fb)
            /\ fb' = FbNull
            /\ _jpg_buf' = NULL
            /\ trace' = Append(trace, Ev("fb_return", frame_count, FbBuf(fb), 0, <<>>, ""))
            /\ UNCHANGED allocated
       ELSE IF _jpg_buf # NULL
       THEN /\ allocated' = allocated \ {_jpg_buf.id}
            /\ _jpg_buf' = NULL
            /\ trace' = Append(trace, Ev("free", frame_count, _jpg_buf, 0, <<>>, ""))
            /\ UNCHANGED <<fb, leased>>
       ELSE UNCHANGED <<fb, _jpg_buf, leased, allocated, trace>>
    /\ UNCHANGED <<res, _jpg_buf_len, frame_count, last_frame_time,
                   clock, sessions, retval, routes, status, wraps, waiting,
                   err, wifi_status, wifi_attempts>>

\* Lines 198-205 without line 204: the freed pointer is kept.
ReleaseFrame_KeepFreed ==
    /\ pc = "release"
    /\ pc' = "check"
    /\ IF fb # FbNull
       THEN /\ leased' = FbReturn(leased, fb)
            /\ fb' = FbNull
            /\ _jpg_buf' = NULL
            /\ trace' = Append(trace, Ev("fb_return", frame_count, FbBuf(fb), 0, <<>>, ""))
            /\ UNCHANGED allocated
       ELSE IF _jpg_buf # NULL
       THEN /\ allocated' = allocated \ {_jpg_buf.id}
            /\ trace' = Append(trace, Ev("free", frame_count, _jpg_buf, 0, <<>>, ""))
            /\ UNCHANGED <<fb, _jpg_buf, leased>>
       ELSE UNCHANGED <<fb, _jpg_buf, leased, allocated, trace>>
    /\ UNCHANGED <<res, _jpg_buf_len, frame_count, last_frame_time,
                   clock, sessions, retval, routes, status, wraps, waiting,
                   err, wifi_status, wifi_attempts>>

\* Lines 198-205.
ReleaseFrame ==
    /\ pc = "release"
    /\ pc' = "check"
    /\ IF fb # FbNull
       THEN /\ leased' = FbReturn(leased, fb)
            /\ fb' = FbNull
            /\ _jpg_buf' = NULL
            /\ trace' = Append(trace, Ev("fb_return", frame_count, FbBuf(fb), 0, <<>>, ""))
            /\ UNCHANGED allocated
       ELSE IF _jpg_buf # NULL
       THEN /\ allocated' = allocated \ {_jpg_buf.id}
            /\ _jpg_buf' = NULL
            /\ trace' = Append(trace, Ev("free", frame_count, _jpg_buf, 0, <<>>, ""))
            /\ UNCHANGED <<fb, leased>>
       ELSE UNCHANGED <<fb, _jpg_buf, leased, allocated, trace>>
    /\ UNCHANGED <<res, _jpg_buf_len, frame_count, last_frame_time,
                   clock, sessions, retval, routes, status, wraps, waiting,
                   err, wifi_status, wifi_attempts>>

\* Lines 207-210 with the test inverted.
CheckResult_Inverted ==
    /\ pc = "check"
    /\ IF res = ESP_OK
       THEN /\ trace' = Append(trace, Log("log_disconnected", frame_count))
            /\ pc' = "return"
       ELSE /\ pc' = "fps"
            /\ UNCHANGED trace
    /\ UNCHANGED <<fb, res, _jpg_buf, _jpg_buf_len, frame_count, last_frame_time,
                   leased, allocated, clock, sessions, retval, routes, status, wraps, waiting,
                   err, wifi_status, wifi_attempts>>

\* Lines 207-210 without the break.
CheckResult_NoBreak ==
    /\ pc = "check"
    /\ pc' = "fps"
    /\ IF res # ESP_OK
       THEN trace' = Append(trace, Log("log_disconnected", frame_count))
       ELSE UNCHANGED trace
    /\ UNCHANGED <<fb, res, _jpg_buf, _jpg_buf_len, frame_count, last_frame_time,
                   leased, allocated, clock, sessions, retval, routes, status, wraps, waiting,
                   err, wifi_status, wifi_attempts>>

\* Lines 207-210 with the error cleared and the loop resumed.
CheckResult_ClearsError ==
    /\ pc = "check"
    /\ pc' = "fps"
    /\ IF res # ESP_OK
       THEN /\ trace' = Append(trace, Log("log_disconnected", frame_count))
            /\ res' = ESP_OK
       ELSE UNCHANGED <<trace, res>>
    /\ UNCHANGED <<fb, _jpg_buf, _jpg_buf_len, frame_count, last_frame_time,
                   leased, allocated, clock, sessions, retval, routes, status, wraps, waiting,
                   err, wifi_status, wifi_attempts>>

\* Lines 207-210.
CheckResult ==
    /\ pc = "check"
    /\ IF res # ESP_OK
       THEN /\ trace' = Append(trace, Log("log_disconnected", frame_count))
            /\ pc' = "return"
       ELSE /\ pc' = "fps"
            /\ UNCHANGED trace
    /\ UNCHANGED <<fb, res, _jpg_buf, _jpg_buf_len, frame_count, last_frame_time,
                   leased, allocated, clock, sessions, retval, routes, status, wraps, waiting,
                   err, wifi_status, wifi_attempts>>

\* Lines 212-218 with a guard that gives up when no time has elapsed.
ReportFps_BreaksOnZeroElapsed ==
    /\ pc = "fps"
    /\ IF Mod32(frame_count, ReportEvery) = 0
       THEN LET elapsed == Sub32(clock, last_frame_time)
                fps     == Fps(elapsed)
            IN  IF elapsed = 0
                THEN /\ res' = ESP_FAIL
                     /\ pc' = "return"
                     /\ UNCHANGED <<trace, last_frame_time>>
                ELSE /\ trace' = Append(trace, Ev("log_fps", frame_count, NULL, elapsed,
                                       <<fps.tenths>>, ""))
                     /\ last_frame_time' = clock
                     /\ pc' = "delay"
                     /\ UNCHANGED res
       ELSE /\ pc' = "delay"
            /\ UNCHANGED <<trace, last_frame_time, res>>
    /\ UNCHANGED <<fb, _jpg_buf, _jpg_buf_len, frame_count, leased, allocated,
                   clock, sessions, retval, routes, status, wraps, waiting,
                   err, wifi_status, wifi_attempts>>

\* Lines 212-218: the logged entry carries the elapsed milliseconds and the
\* frame rate printed.
ReportFps ==
    /\ pc = "fps"
    /\ pc' = "delay"
    /\ IF Mod32(frame_count, ReportEvery) = 0
       THEN LET elapsed == Sub32(clock, last_frame_time)
                fps     == Fps(elapsed)
            IN  /\ trace' = Append(trace, Ev("log_fps", frame_count, NULL, elapsed,
                                  <<fps.tenths>>, IF fps.inf THEN "inf" ELSE ""))
                /\ last_frame_time' = clock
       ELSE UNCHANGED <<trace, last_frame_time>>
    /\ UNCHANGED <<fb, res, _jpg_buf, _jpg_buf_len, frame_count, leased, allocated,
                   clock, sessions, retval, routes, status, wraps, waiting,
                   err, wifi_status, wifi_attempts>>

\* Line 221: delay(33).
Delay ==
    /\ pc = "delay"
    /\ pc' = "get"
    /\ clock' = Add32(clock, FrameDelayMs)
    /\ trace' = Append(trace, Log("delay", frame_count))
    /\ UNCHANGED <<fb, res, _jpg_buf, _jpg_buf_len, frame_count, last_frame_time,
                   leased, allocated, sessions, retval, routes, status, wraps, waiting,
                   err, wifi_status, wifi_attempts>>

\* Lines 153 and 224 with the server taken down when the handler failed.
Return_StopsServer ==
    /\ pc = "return"
    /\ pc' = "idle"
    /\ retval' = res
    /\ routes' = IF res # ESP_OK THEN {} ELSE routes
    /\ UNCHANGED <<fb, res, _jpg_buf, _jpg_buf_len, frame_count, last_frame_time,
                   leased, allocated, clock, sessions, trace, status, wraps, waiting,
                   err, wifi_status, wifi_attempts>>

\* Lines 153 and 224: return res.
Return ==
    /\ pc = "return"
    /\ pc' = "idle"
    /\ retval' = res
    /\ UNCHANGED <<fb, res, _jpg_buf, _jpg_buf_len, frame_count, last_frame_time,
                   leased, allocated, clock, sessions, trace, routes, status, wraps, waiting,
                   err, wifi_status, wifi_attempts>>

Next ==
    \/ CameraInit
    \/ WifiPoll
    \/ WifiCheck
    \/ StartCameraServer
    \/ IndexHandler
    \/ StreamHandlerEntry
    \/ FbGet
    \/ EnsureJpeg
    \/ SendHeader
    \/ SendPayload
    \/ SendBoundary
    \/ ReleaseFrame
    \/ CheckResult
    \/ ReportFps
    \/ Delay
    \/ Return

Spec == Init /\ [][Next]_vars

\* The same program, followed from boot or from a running invocation.
SpecMid == InitMid /\ [][Next]_vars

(***************************************************************************)
(* The rendering of the part header, line 188, on its own: the payload     *)
(* length is any size_t, the edges of every digit count and of every bit   *)
(* width among them.                                                       *)
(***************************************************************************)
PayloadLengths ==
    (0..20)
    \cup {10 ^ d - 1 : d \in 1..9} \cup {10 ^ d : d \in 1..9}
    \cup {2 ^ k - 1 : k \in 5..30} \cup {2 ^ k : k \in 5..30}
    \cup {MaxInt32, MinInt32, MinInt32 + 1, -294967297, -294967296, -2, -1}

InitPart ==
    /\ pc = "snprintf"
    /\ _jpg_buf_len \in PayloadLengths
    /\ fb = FbNull
    /\ res = ESP_OK
    /\ _jpg_buf = NULL
    /\ frame_count = 1
    /\ last_frame_time = 0
    /\ leased = {}
    /\ allocated = {}
    /\ clock = 0
    /\ sessions = 1
    /\ trace = <<>>
    /\ retval = "none"
    /\ routes = {"/", "/stream"}
    /\ status = NoStatus
    /\ wraps = 0
    /\ waiting = {}
    /\ err = ESP_OK
    /\ wifi_status = WL_CONNECTED
    /\ wifi_attempts = 0

RenderPart ==
    /\ pc = "snprintf"
    /\ pc' = "rendered"
    /\ LET part == StreamPart(_jpg_buf_len)
       IN  trace' = <<[op |-> "snprintf", frame |-> frame_count, ptr |-> NULL,
                       len |-> part.hlen, digits |-> part.digits, res |-> "",
                       written |-> part.written]>>
    /\ UNCHANGED <<fb, res, _jpg_buf, _jpg_buf_len, frame_count, last_frame_time,
                   leased, allocated, clock, sessions, retval, routes, status, wraps, waiting,
                   err, wifi_status, wifi_attempts>>

SpecPart == InitPart /\ [][RenderPart]_vars

(***************************************************************************)
(* A client asks for one of the URIs of lines 267-280 while the server     *)
(* task is inside stream_handler: the request waits on its socket.  (A     *)
(* request that finds the task free is the step of its handler.)           *)
(***************************************************************************)
Arrive(u) ==
    /\ pc \in {"get", "encode", "hdr", "payload", "boundary", "release",
               "check", "fps", "delay", "return"}
    /\ u \in routes
    /\ u \notin waiting
    /\ waiting' = waiting \cup {u}
    /\ UNCHANGED <<pc, fb, res, _jpg_buf, _jpg_buf_len, frame_count, last_frame_time,
                   leased, allocated, clock, sessions, trace, retval, routes, status, wraps,
                   err, wifi_status, wifi_attempts>>

NextSrv ==
    \/ Next
    \/ \E u \in {"/", "/stream"} : Arrive(u)

\* The same program with clients that send requests during a stream.
SpecSrv == Init /\ [][NextSrv]_vars

\* A step of stream_handler after its entry.  Every call the handler makes
\* returns, so an invocation that can take a step takes it; requests arrive
\* or not as the clients please.
HandlerStep ==
    \/ FbGet
    \/ EnsureJpeg
    \/ SendHeader
    \/ SendPayload
    \/ SendBoundary
    \/ ReleaseFrame
    \/ CheckResult
    \/ ReportFps
    \/ Delay
    \/ Return

SpecFair == Spec /\ WF_vars(HandlerStep)

\* A step of setup.  esp_camera_init, WiFi.status, delay and httpd_start
\* return, so setup goes on until it returns.
SetupStep ==
    \/ CameraInit
    \/ WifiPoll
    \/ WifiCheck
    \/ StartCameraServer

SpecBoot == Spec /\ WF_vars(SetupStep)

(***************************************************************************)
(* Vocabulary of the claims, read off the call trace of an invocation.     *)
(***************************************************************************)
Idx == 1..Len(trace)

IsWrite(e) == e.op \in {"send_hdr", "send_payload", "send_boundary"}

\* The transport writes attempted so far, in order.
Writes == SelectSeq(trace, IsWrite)

CountOp(op) == Cardinality({i \in Idx : trace[i].op = op})

\* The loop is between the release block of one iteration and the
\* acquisition of the next, or the handler is returning or has returned.
IterationEnded == pc \in {"check", "fps", "delay", "get", "return", "idle"}

\* The handler has returned from an invocation.
Returned == pc = "idle" /\ trace # <<>>

\* The buffer that holds the JPEG of acquisition k: the one frame2jpg
\* allocated for it, or else the leased buffer itself.
JpegOf(k) ==
    LET conv == {j \in Idx : trace[j].frame = k /\ trace[j].op = "frame2jpg"
                              /\ trace[j].res = "true"}
        got  == {j \in Idx : trace[j].frame = k /\ trace[j].op = "fb_get"}
    IN  IF conv # {} THEN trace[CHOOSE j \in conv : TRUE].ptr
        ELSE trace[CHOOSE j \in got : TRUE].ptr

\* Header, payload and boundary of acquisition k were each written once, OK.
CompleteUnit(k) ==
    \A op \in {"send_hdr", "send_payload", "send_boundary"} :
        /\ Cardinality({i \in Idx : trace[i].op = op /\ trace[i].frame = k}) = 1
        /\ \A i \in Idx : trace[i].op = op /\ trace[i].frame = k => trace[i].res = ESP_OK

(***************************************************************************)
(* C1: every frame buffer leased by esp_camera_fb_get is given back by     *)
(* esp_camera_fb_return exactly once, after it was leased, before the next *)
(* esp_camera_fb_get and before the handler returns, on every path; no     *)
(* lease is outstanding at the end of an iteration or at the return.       *)
(***************************************************************************)
C1_LeaseBalance ==
    /\ Cardinality(leased) <= 1
    /\ IterationEnded => leased = {}
    /\ \A i \in Idx :
          trace[i].op = "fb_get" /\ trace[i].res = "ok" =>
             LET rets == {j \in Idx : trace[j].op = "fb_return"
                                      /\ trace[j].ptr = trace[i].ptr}
             IN  /\ Cardinality(rets) <= 1
                 /\ \A j \in rets : j > i
                 /\ IterationEnded => Cardinality(rets) = 1
                 /\ \A g \in Idx : g > i /\ trace[g].op = "fb_get" =>
                                      \E j \in rets : j < g
    /\ \A j \in Idx :
          trace[j].op = "fb_return" =>
             \E i \in Idx : i < j /\ trace[i].op = "fb_get" /\ trace[i].res = "ok"
                            /\ trace[i].ptr = trace[j].ptr

\* An invocation returned after the payload write of its second frame failed,
\* with both leases given back.
C1_Witness ==
    /\ Returned
    /\ leased = {}
    /\ CountOp("fb_return") = 2
    /\ \E i \in Idx : trace[i].op = "send_payload" /\ trace[i].frame = 2
                      /\ trace[i].res # ESP_OK

(***************************************************************************)
(* C2: each frame is disposed of exactly once and by the right call: only  *)
(* leased buffers go to esp_camera_fb_return, only buffers allocated by a  *)
(* successful frame2jpg go to free(), free() is never called on a leased   *)
(* buffer, on a pointer freed before or twice on one buffer, and fb and    *)
(* _jpg_buf are both NULL at the start of every iteration.                 *)
(***************************************************************************)
C2_ExactlyOneDisposal ==
    /\ pc = "get" => fb = FbNull /\ _jpg_buf = NULL
    /\ \A i \in Idx :
          trace[i].op = "free" =>
             /\ trace[i].ptr.kind = "heap"
             /\ \E j \in Idx : j < i /\ trace[j].op = "frame2jpg"
                               /\ trace[j].res = "true" /\ trace[j].ptr = trace[i].ptr
             /\ \A j \in Idx : trace[j].op = "free" /\ trace[j].ptr = trace[i].ptr => j = i
    /\ \A i \in Idx :
          trace[i].op = "fb_return" =>
             /\ trace[i].ptr.kind = "fb"
             /\ \A j \in Idx : trace[j].op = "fb_return" /\ trace[j].ptr = trace[i].ptr
                                  => j = i
    /\ IterationEnded =>
          /\ allocated = {}
          /\ \A i \in Idx :
                trace[i].op = "frame2jpg" /\ trace[i].res = "true" =>
                   Cardinality({j \in Idx : trace[j].op = "free"
                                            /\ trace[j].ptr = trace[i].ptr}) = 1
          /\ \A i \in Idx :
                trace[i].op = "fb_get" /\ trace[i].res = "ok" =>
                   Cardinality({j \in Idx : trace[j].op \in {"fb_return", "free"}
                                            /\ trace[j].ptr = trace[i].ptr}) = 1

\* The third iteration starts after a converted frame was freed and a JPEG
\* frame was returned.
C2_Witness ==
    /\ pc = "get"
    /\ frame_count = 2
    /\ \E i \in Idx : trace[i].op = "free" /\ trace[i].frame = 1
    /\ \E i \in Idx : trace[i].op = "fb_return" /\ trace[i].frame = 2
                      /\ JpegOf(2).kind = "fb"

(***************************************************************************)
(* C3: for every frame whose payload write is attempted, the value         *)
(* rendered into the Content-Length header written just before it equals   *)
(* the number of bytes passed to the payload write, and that number is the *)
(* length of the frame's own JPEG buffer (fb->len of a JPEG frame, the     *)
(* length frame2jpg produced for a converted one), never an earlier one.   *)
(***************************************************************************)
C3_ContentLengthIsPayloadLength ==
    \A i \in Idx :
        trace[i].op = "send_payload" =>
           /\ i > 1
           /\ trace[i - 1].op = "send_hdr"
           /\ trace[i - 1].frame = trace[i].frame
           /\ ParseUnsigned(trace[i - 1].digits) = trace[i].len
           /\ trace[i].ptr = JpegOf(trace[i].frame)
           /\ trace[i].len = trace[i].ptr.size

\* A converted frame of 123 bytes was sent after a JPEG frame of 10 bytes.
C3_Witness ==
    \E i, j \in Idx :
        /\ i < j
        /\ trace[i].op = "send_payload" /\ trace[i].len = 10
        /\ trace[i].ptr.kind = "fb"
        /\ trace[j].op = "send_payload" /\ trace[j].len = 123
        /\ trace[j].ptr.kind = "heap"
        /\ trace[j - 1].digits = <<1, 2, 3>>

(***************************************************************************)
(* C4: the transport writes of a frame happen in the order part header,    *)
(* payload, boundary, each at most once per frame, and no write of another *)
(* frame falls between the header write and the boundary write of a frame. *)
(***************************************************************************)
C4_WriteOrder ==
    LET w == Writes
    IN  \A i \in 1..Len(w) :
           /\ w[i].op = "send_hdr" =>
                 \/ i = 1
                 \/ w[i - 1].op = "send_boundary" /\ w[i - 1].frame < w[i].frame
           /\ w[i].op = "send_payload" =>
                 i > 1 /\ w[i - 1].op = "send_hdr" /\ w[i - 1].frame = w[i].frame
           /\ w[i].op = "send_boundary" =>
                 i > 1 /\ w[i - 1].op = "send_payload" /\ w[i - 1].frame = w[i].frame
           /\ \A j \in 1..Len(w) :
                 w[j].op = w[i].op /\ w[j].frame = w[i].frame => j = i

\* Three frames were written in full.
C4_Witness ==
    /\ Len(Writes) = 9
    /\ Writes[9].op = "send_boundary"
    /\ Writes[9].res = ESP_OK
    /\ Writes[9].frame = 3

(***************************************************************************)
(* C5: the stream a session writes is a concatenation of units boundary,   *)
(* part header, payload: every part header written, the first one of the   *)
(* session included, directly follows a boundary delimiter, and the stream *)
(* of a session that returned does not end with a boundary.                *)
(***************************************************************************)
C5_BoundaryPrecedesEveryHeader ==
    LET w == SelectSeq(Writes, LAMBDA e : e.res = ESP_OK)
    IN  /\ \A i \in 1..Len(w) :
              w[i].op = "send_hdr" => i > 1 /\ w[i - 1].op = "send_boundary"
        /\ Returned /\ Len(w) > 0 => w[Len(w)].op # "send_boundary"

(***************************************************************************)
(* C6: when one of the three writes of frame n fails, no further write is  *)
(* attempted in the session and nothing is written twice, the buffer of    *)
(* frame n is still released, frames 1..n-1 were each written in full, no  *)
(* further frame is acquired, and the handler returns the code the failed  *)
(* write returned.                                                         *)
(***************************************************************************)
C6_WriteFailureEndsSession ==
    \A i \in Idx :
        IsWrite(trace[i]) /\ trace[i].res # ESP_OK =>
           LET n == trace[i].frame
           IN  /\ \A j \in Idx : j > i =>
                      /\ ~IsWrite(trace[j])
                      /\ trace[j].op \notin {"fb_get", "frame2jpg", "delay", "log_fps"}
               /\ \A j \in Idx : IsWrite(trace[j]) /\ trace[j].op = trace[i].op
                                    /\ trace[j].frame = n => j = i
               /\ \A k \in 1..(n - 1) : CompleteUnit(k)
               /\ res = trace[i].res
               /\ pc \in {"payload", "boundary", "release", "check", "return", "idle"}
               /\ IterationEnded =>
                     /\ leased = {}
                     /\ allocated = {}
                     /\ Cardinality({j \in Idx : trace[j].op \in {"fb_return", "free"}
                                                 /\ trace[j].ptr = JpegOf(n)}) = 1
               /\ Returned => retval = trace[i].res

\* The boundary write of the third frame failed and the handler returned
\* that write's code.
C6_Witness ==
    /\ Returned
    /\ retval = "ESP_ERR_HTTPD_INVALID_REQ"
    /\ \E i \in Idx : /\ trace[i].op = "send_boundary"
                      /\ trace[i].frame = 3
                      /\ trace[i].res = "ESP_ERR_HTTPD_INVALID_REQ"
                      /\ \E j \in Idx : j > i /\ trace[j].op = "free"

(***************************************************************************)
(* C7: when esp_camera_fb_get returns NULL on the k-th acquisition of a    *)
(* session, the session ends returning a failure code after exactly k-1    *)
(* complete header/payload/boundary units, with exactly k-1 calls of       *)
(* esp_camera_fb_return, no lease outstanding, and neither a write nor a   *)
(* release for the k-th attempt.                                           *)
(***************************************************************************)
C7_CaptureFailureAtK ==
    \A i \in Idx :
        trace[i].op = "fb_get" /\ trace[i].res = "null" =>
           LET k == trace[i].frame
           IN  /\ pc \in {"return", "idle"}
               /\ res # ESP_OK
               /\ Returned => retval # ESP_OK
               /\ \A f \in 1..(k - 1) : CompleteUnit(f)
               /\ Len(Writes) = 3 * (k - 1)
               /\ CountOp("fb_return") = k - 1
               /\ CountOp("fb_get") = k
               /\ leased = {}
               /\ i = Len(trace) - 1
               /\ trace[Len(trace)].op = "log_capture_failed"
               /\ \A j \in Idx : j # i /\ trace[j].frame = k =>
                                    trace[j].op = "log_capture_failed"

\* The third acquisition failed after two delivered frames.
C7_Witness ==
    /\ Returned
    /\ retval = ESP_FAIL
    /\ \E i \in Idx : trace[i].op = "fb_get" /\ trace[i].res = "null"
                      /\ trace[i].frame = 3
    /\ Len(Writes) = 6

(***************************************************************************)
(* C8: when frame2jpg fails on a non-JPEG frame, in the first or in any    *)
(* later iteration, the leased frame is returned to the camera exactly     *)
(* once, no header, payload or boundary write is attempted for that frame, *)
(* free() is not called, no further frame is acquired and the handler      *)
(* returns a failure code.                                                 *)
(***************************************************************************)
C8_ConversionFailure ==
    \A i \in Idx :
        trace[i].op = "frame2jpg" /\ trace[i].res = "false" =>
           LET k   == trace[i].frame
               got == CHOOSE g \in Idx : trace[g].op = "fb_get" /\ trace[g].frame = k
           IN  /\ Cardinality({j \in Idx : trace[j].op = "fb_return"
                                           /\ trace[j].ptr = trace[got].ptr}) = 1
               /\ \A j \in Idx : IsWrite(trace[j]) => trace[j].frame < k
               /\ \A j \in Idx : j > i => trace[j].op \notin {"free", "fb_get", "frame2jpg"}
               /\ \A j \in Idx : trace[j].op = "free" => trace[j].frame < k
               /\ res # ESP_OK
               /\ pc \in {"hdr", "payload", "boundary", "release", "check", "return", "idle"}
               /\ Returned => retval # ESP_OK

\* The conversion of the second frame failed after the first frame had been
\* converted, sent and freed, and the handler returned.
C8_Witness ==
    /\ Returned
    /\ retval = ESP_FAIL
    /\ \E i \in Idx : trace[i].op = "frame2jpg" /\ trace[i].res = "false"
                      /\ trace[i].frame = 2
    /\ \E i \in Idx : trace[i].op = "free" /\ trace[i].frame = 1

(***************************************************************************)
(* C9: a frame acquired with length zero is handled like a failed          *)
(* acquisition: no header, payload or boundary write is made for it (no    *)
(* Content-Length: 0 header, no zero-length payload chunk) and the session *)
(* ends with a failure result.                                             *)
(***************************************************************************)
C9_ZeroLengthFrameIsCaptureFailure ==
    \A i \in Idx :
        trace[i].op = "fb_get" /\ trace[i].res = "ok" /\ trace[i].len = 0 =>
           /\ \A j \in Idx : IsWrite(trace[j]) => trace[j].frame # trace[i].frame
           /\ IterationEnded => res # ESP_OK

(***************************************************************************)
(* C10: a returned session logged "Stream client disconnected" if and only *)
(* if one of its transport writes failed, and logged exactly one cause     *)
(* when its loop ended.                                                    *)
(***************************************************************************)
C10_DisconnectReportedOnlyForWriteFailure ==
    Returned =>
       /\ (\E i \in Idx : trace[i].op = "log_disconnected")
             <=> (\E i \in Idx : IsWrite(trace[i]) /\ trace[i].res # ESP_OK)
       /\ CountOp("fb_get") > 0 =>
             Cardinality({i \in Idx : trace[i].op \in
                 {"log_capture_failed", "log_compression_failed", "log_disconnected"}}) = 1

\* The session is about to make a transport write.
WritePending == pc \in {"hdr", "payload", "boundary"} /\ res = ESP_OK

\* Entry i of the trace is the acquisition of a frame that needed no
\* conversion: its encoder step is over and frame2jpg was not called for it.
IsJpegFrame(i) ==
    /\ trace[i].op = "fb_get"
    /\ trace[i].res = "ok"
    /\ trace[i].frame # frame_count \/ pc # "encode"
    /\ \A j \in Idx : trace[j].op = "frame2jpg" => trace[j].frame # trace[i].frame

\* Why the loop of the current invocation was left.
CaptureFailure == \E i \in Idx : trace[i].op = "fb_get" /\ trace[i].res = "null"
ConversionFailure == \E i \in Idx : trace[i].op = "frame2jpg" /\ trace[i].res = "false"
WriteFailure == \E i \in Idx : IsWrite(trace[i]) /\ trace[i].res # ESP_OK

(***************************************************************************)
(* C11: for a non-JPEG frame the lease goes back to the camera right after *)
(* frame2jpg returns and before any transport write of that frame; while a *)
(* write is pending the session holds exactly one buffer, a leased one or  *)
(* an allocated one, never both; a converted frame is sent from the        *)
(* allocated JPEG buffer and its lease is returned exactly once.           *)
(***************************************************************************)
C11_LeaseReturnedBeforeWrites ==
    /\ \A i \in Idx :
          trace[i].op = "frame2jpg" =>
             LET k   == trace[i].frame
                 got == CHOOSE g \in Idx : trace[g].op = "fb_get" /\ trace[g].frame = k
             IN  /\ i < Len(trace)
                 /\ trace[i + 1].op = "fb_return"
                 /\ trace[i + 1].ptr = trace[got].ptr
                 /\ \A j \in Idx : IsWrite(trace[j]) /\ trace[j].frame = k => j > i + 1
                 /\ \A j \in Idx : trace[j].op = "fb_return"
                                      /\ trace[j].ptr = trace[got].ptr => j = i + 1
                 /\ \A j \in Idx : trace[j].op = "send_payload" /\ trace[j].frame = k =>
                                      trace[j].ptr = trace[i].ptr /\ trace[j].ptr.kind = "heap"
    /\ WritePending =>
          /\ Cardinality(leased) + Cardinality(allocated) = 1
          /\ leased # {} <=> fb # FbNull
          /\ allocated # {} <=> (fb = FbNull /\ _jpg_buf.kind = "heap")

\* The payload of a converted frame is about to be written from the
\* allocated buffer, the lease already returned.
C11_Witness ==
    /\ pc = "payload"
    /\ res = ESP_OK
    /\ leased = {}
    /\ allocated = {_jpg_buf.id}
    /\ trace[Len(trace)].op = "send_hdr"
    /\ trace[Len(trace) - 1].op = "fb_return"

(***************************************************************************)
(* C12: for a frame that is JPEG already the encoder step is the identity: *)
(* frame2jpg is not called, nothing is allocated or freed, the payload     *)
(* written is the leased buffer itself with length fb->len, and the lease  *)
(* is held until after the last write of the frame and then returned.      *)
(***************************************************************************)
JpegEncoderStepIsIdentity ==
    pc = "encode" /\ fb.format = PIXFORMAT_JPEG =>
       /\ fb' = fb
       /\ leased' = leased
       /\ allocated' = allocated
       /\ trace' = trace
       /\ _jpg_buf' = FbBuf(fb)
       /\ _jpg_buf_len' = fb.len

C12_JpegPassThrough ==
    /\ [](\A i \in Idx :
             IsJpegFrame(i) =>
                LET k == trace[i].frame
                IN  /\ \A j \in Idx : trace[j].frame = k => trace[j].op # "free"
                    /\ \A j \in Idx : trace[j].op = "send_payload" /\ trace[j].frame = k =>
                           trace[j].ptr = trace[i].ptr /\ trace[j].len = trace[i].len
                    /\ \A r \in Idx : trace[r].op = "fb_return" /\ trace[r].ptr = trace[i].ptr =>
                           \A w \in Idx : IsWrite(trace[w]) /\ trace[w].frame = k => w < r
                    /\ k = frame_count /\ pc \in {"hdr", "payload", "boundary", "release"} =>
                           /\ trace[i].ptr.id \in leased
                           /\ allocated = {}
                           /\ _jpg_buf = trace[i].ptr
                           /\ _jpg_buf_len = trace[i].len)
    /\ [][JpegEncoderStepIsIdentity]_vars

\* A JPEG frame of 10 bytes was written in full from the leased buffer and
\* the lease was returned right after the boundary write.
C12_Witness ==
    /\ pc = "check"
    /\ Len(trace) >= 5
    /\ trace[Len(trace)].op = "fb_return"
    /\ trace[Len(trace) - 1].op = "send_boundary"
    /\ trace[Len(trace) - 2].op = "send_payload"
    /\ trace[Len(trace) - 2].ptr = trace[Len(trace)].ptr
    /\ trace[Len(trace) - 2].len = 10

(***************************************************************************)
(* C13: a session is STREAMING (inside the loop) or CLOSED (returning or   *)
(* returned).  The loop is left only because an acquisition, a conversion  *)
(* or a transport write failed, and a closed session makes no further      *)
(* acquisition, write, release, free, throughput report or delay: the only *)
(* step that changes anything after it is the entry of a new invocation.   *)
(***************************************************************************)
ClosedSessionStep ==
    pc \in {"return", "idle"} =>
       \/ /\ pc' \in {"return", "idle"}
          /\ trace' = trace
          /\ leased' = leased
          /\ allocated' = allocated
          /\ clock' = clock
          /\ frame_count' = frame_count
       \/ /\ pc = "idle"
          /\ sessions' = sessions + 1

C13_ClosedIsAbsorbing ==
    /\ [](pc = "return" /\ CountOp("fb_get") > 0 =>
             /\ res # ESP_OK
             /\ CaptureFailure \/ ConversionFailure \/ WriteFailure)
    /\ [][ClosedSessionStep]_vars

\* A session closed by a failed header write of its second frame.
C13_Witness ==
    /\ Returned
    /\ retval = "ESP_ERR_HTTPD_RESP_SEND"
    /\ \E i \in Idx : trace[i].op = "send_hdr" /\ trace[i].frame = 2
                      /\ trace[i].res = "ESP_ERR_HTTPD_RESP_SEND"

(***************************************************************************)
(* C14: a session in which every acquisition, conversion and write         *)
(* succeeds never returns and never writes an end-of-response marker: no   *)
(* chunk of length zero is passed to the chunked transport, whatever       *)
(* frames the camera returns.                                              *)
(***************************************************************************)
C14_NoEndOfResponseWhileStreaming ==
    /\ \A i \in Idx : IsWrite(trace[i]) => trace[i].len > 0
    /\ pc \in {"return", "idle"} /\ CountOp("fb_get") > 0 =>
          CaptureFailure \/ ConversionFailure \/ WriteFailure

\* The acquisitions i < j are consecutive ones of the session.
ConsecutiveAcquisitions(i, j) ==
    /\ i < j
    /\ trace[i].op = "fb_get"
    /\ trace[j].op = "fb_get"
    /\ \A e \in (i + 1)..(j - 1) : trace[e].op # "fb_get"

\* An acquisition, conversion or write before position d failed.
FailedBefore(d) ==
    \E e \in 1..(d - 1) :
        \/ trace[e].op = "fb_get" /\ trace[e].res = "null"
        \/ trace[e].op = "frame2jpg" /\ trace[e].res = "false"
        \/ IsWrite(trace[e]) /\ trace[e].res # ESP_OK

\* A step that executes the inter-frame delay takes FrameDelayMs of the clock.
DelayStepTakesFrameDelay ==
    Len(trace') = Len(trace) + 1 /\ trace'[Len(trace')].op = "delay" =>
        clock' = clock + 33

\* One delay lies between consecutive acquisitions, after the releases; it
\* runs with no buffer held and never after a failure.
DelaysSeparateAcquisitions ==
    /\ \A i, j \in Idx : ConsecutiveAcquisitions(i, j) =>
          \E d \in (i + 1)..(j - 1) :
             /\ trace[d].op = "delay"
             /\ \A e \in (i + 1)..(j - 1) :
                   /\ trace[e].op = "delay" => e = d
                   /\ trace[e].op \in {"fb_return", "free"} => e < d
             /\ \E e \in (i + 1)..(d - 1) : trace[e].op = "fb_return"
    /\ pc = "delay" => leased = {} /\ allocated = {}
    /\ \A d \in Idx : trace[d].op = "delay" => ~FailedBefore(d)

(***************************************************************************)
(* C18: between two consecutive acquisitions of a session exactly one      *)
(* inter-frame delay of 33 ms is executed, after the earlier frame was     *)
(* released; the delay is not executed while the session holds a leased or *)
(* an allocated buffer, and never after an iteration that failed.          *)
(***************************************************************************)
C18_OneDelayBetweenAcquisitions ==
    /\ []DelaysSeparateAcquisitions
    /\ [][DelayStepTakesFrameDelay]_vars

\* A converted frame was released, one delay ran, and the next frame is held.
C18_Witness ==
    /\ pc = "encode"
    /\ leased # {}
    /\ CountOp("delay") = 1
    /\ CountOp("free") = 1
    /\ CountOp("fb_get") = 2

\* k modulo m, where k = wraps * 2^32 + frame_count is the number of frames
\* acquired by the running invocation.
FramesMod(m) == (wraps * Pow32Mod(m) + Mod32(frame_count, m)) % m

\* The step of lines 212-218 has just logged a throughput report.
JustReported == trace # <<>> /\ trace[Len(trace)].op = "log_fps"

(***************************************************************************)
(* C15: a throughput report follows the k-th delivered frame of a session  *)
(* exactly when k is a positive multiple of 100, also for k beyond 2^32    *)
(* where the 32-bit counter has wrapped; a frame that was not delivered    *)
(* gets no report.                                                         *)
(***************************************************************************)
C15_ReportIffMultipleOf100 ==
    /\ pc = "delay" => (JustReported <=> FramesMod(ReportEvery) = 0)
    /\ \A i \in Idx : trace[i].op = "log_fps" =>
          \E j \in 1..(i - 1) : /\ trace[j].op = "send_boundary"
                                 /\ trace[j].frame = trace[i].frame
                                 /\ trace[j].res = ESP_OK

\* A step taken from the report statement, and the one after it.
ReportStepOnlyMovesWindow ==
    /\ pc = "fps" =>
          /\ pc' = "delay"
          /\ res' = res /\ res = ESP_OK
          /\ frame_count' = frame_count
          /\ fb' = fb /\ _jpg_buf' = _jpg_buf /\ _jpg_buf_len' = _jpg_buf_len
          /\ leased' = leased /\ allocated' = allocated
          /\ clock' = clock /\ retval' = retval
          /\ last_frame_time' \in {last_frame_time, clock}
    /\ pc = "delay" => pc' = "get" /\ res' = ESP_OK /\ retval' = "none"

(***************************************************************************)
(* C16: the throughput report changes nothing but the start of the window: *)
(* result code, frame counter and buffers are as before it, and the loop   *)
(* goes on to the delay and to the next acquisition whatever the elapsed   *)
(* time is, 0 ms and a wrapped millisecond clock included.                 *)
(***************************************************************************)
C16_ReportNeverAltersLoop ==
    [][ReportStepOnlyMovesWindow]_vars

\* A report over an elapsed time of 0 ms was followed by the next frame.
C16_Witness ==
    \E i, j \in Idx : /\ i < j
                      /\ trace[i].op = "log_fps" /\ trace[i].len = 0
                      /\ trace[j].op = "fb_get" /\ trace[j].res = "ok"

\* The 100 frames of the window that report i closes were acquired one
\* FrameDelayMs apart: 99 periods lie between the first and the last of
\* them, 100 between the previous report and this one.
FixedPeriodWindow(i) ==
    trace[i].len \in {(ReportEvery - 1) * FrameDelayMs, ReportEvery * FrameDelayMs}

(***************************************************************************)
(* C17: a throughput report is 100 frames over the time elapsed since the  *)
(* previous report of the session, or since its start for the first one,   *)
(* that is 100000 / elapsed_ms; when the 100 frames came at a fixed period *)
(* of T ms the value printed is the rate 1000 / T, to the digit printed.   *)
(***************************************************************************)
C17_ReportIsInjectedRate ==
    \A i \in Idx : trace[i].op = "log_fps" /\ FixedPeriodWindow(i) =>
        trace[i].digits = <<Fps(ReportEvery * FrameDelayMs).tenths>>

\* The invocation has just reached the loop; it was entered under observation.
SessionStart == pc = "get" /\ trace = <<Log("log_connected", 0)>>
EnteredUnderObservation == trace # <<>> /\ trace[1].op = "log_connected"

\* Frames acquired before position i of the trace.
AcquiredBefore(i) ==
    Cardinality({j \in 1..(i - 1) : trace[j].op = "fb_get" /\ trace[j].res = "ok"})

(***************************************************************************)
(* C19: nothing of a session survives it: every invocation that reaches    *)
(* the loop starts with frame counter 0, the throughput window starting at *)
(* the time of the invocation, result OK and no buffer held, whatever the  *)
(* earlier sessions did, and its first report comes after its own 100th    *)
(* frame.                                                                  *)
(***************************************************************************)
C19_NoStateSurvivesSession ==
    /\ SessionStart =>
          /\ frame_count = 0
          /\ last_frame_time = clock
          /\ res = ESP_OK
          /\ fb = FbNull /\ _jpg_buf = NULL /\ _jpg_buf_len = 0
          /\ leased = {} /\ allocated = {}
    /\ EnteredUnderObservation =>
          \A i \in Idx : trace[i].op = "log_fps" => AcquiredBefore(i) >= ReportEvery

\* A session starts after one that made its report of frame 100 and went
\* on for another iteration before it ended.
C19_Witness ==
    /\ SessionStart
    /\ sessions > 1
    /\ clock = 3234 + 2 * FrameDelayMs

\* The invocation that has returned ended on a per-frame error.
EndedByFrameError ==
    Returned /\ (CaptureFailure \/ ConversionFailure \/ WriteFailure)

(***************************************************************************)
(* C20: a per-frame error ends only its own session: once a session has    *)
(* ended on a capture, conversion or write failure both routes are still   *)
(* registered, the ended session holds no lease or allocation, a /stream   *)
(* request starts a new session, and a status request is answered; the     *)
(* buffers a session holds are its own.                                    *)
(***************************************************************************)
C20_FrameErrorEndsOnlyItsSession ==
    /\ EndedByFrameError =>
          /\ routes = {"/", "/stream"}
          /\ leased = {} /\ allocated = {}
          /\ sessions < MaxSessions => ENABLED StreamHandlerEntry
          /\ ENABLED IndexHandler
    /\ \A id \in leased \cup allocated : id[1] = sessions

\* After a session that ended on a frame error past its first delay, a
\* second session delivered a frame, ended too, and a status request was
\* answered.
C20_Witness ==
    /\ EndedByFrameError
    /\ sessions = 2
    /\ clock = 2 * FrameDelayMs
    /\ CountOp("delay") = 1
    /\ CompleteUnit(1)
    /\ status.sends = 1 /\ status.res = ESP_OK

\* The steps into and out of an invocation that has made no acquisition.
SetTypeFailureReturnsAtOnce ==
    /\ pc = "idle" /\ pc' = "get" => res' = ESP_OK
    /\ pc = "idle" /\ pc' = "return" =>
          /\ res' \in HttpdErrs
          /\ trace' = <<Log("log_connected", 0)>>
          /\ leased' = leased /\ allocated' = allocated
          /\ fb' = FbNull /\ _jpg_buf' = NULL
    /\ pc = "return" /\ CountOp("fb_get") = 0 =>
          /\ pc' = "idle"
          /\ retval' = res
          /\ trace' = trace
          /\ leased' = leased /\ allocated' = allocated

(***************************************************************************)
(* C26: when httpd_resp_set_type fails at the start of a stream request    *)
(* the handler returns that error at once: no frame is acquired, nothing   *)
(* is written to the transport, no lease is created and the loop is never  *)
(* entered.                                                                *)
(***************************************************************************)
C26_SetTypeFailureReturnsAtOnce ==
    /\ [](pc \in {"return", "idle"} /\ trace # <<>> /\ CountOp("fb_get") = 0 =>
             /\ res \in HttpdErrs
             /\ Len(trace) = 1
             /\ leased = {} /\ allocated = {}
             /\ Returned => retval = res)
    /\ [][SetTypeFailureReturnsAtOnce]_vars

\* The second stream request was refused at the content type.
C26_Witness ==
    /\ Returned
    /\ sessions = 2
    /\ Len(trace) = 1
    /\ retval = "ESP_ERR_HTTPD_INVALID_REQ"

\* A step in which index_handler answered a request.
StatusRequestStep == status' # status /\ status'.sends # 0

\* The request is answered by one send and touches nothing of the camera
\* or of a stream session.
StatusStepIsSingleShot ==
    StatusRequestStep =>
        /\ status'.sends = 1
        /\ pc = "idle" /\ pc' = "idle"
        /\ trace' = trace
        /\ leased' = leased /\ allocated' = allocated
        /\ fb' = fb /\ _jpg_buf' = _jpg_buf /\ _jpg_buf_len' = _jpg_buf_len
        /\ res' = res /\ retval' = retval
        /\ frame_count' = frame_count /\ last_frame_time' = last_frame_time
        /\ sessions' = sessions /\ routes' = routes /\ clock' = clock

(***************************************************************************)
(* C22: a status request is single-shot and takes no resource: the handler *)
(* sends exactly one response and returns, has no loop, never acquires or  *)
(* releases a camera frame buffer, and leaves the lease balance and the    *)
(* state of any stream session as they were.                               *)
(***************************************************************************)
C22_StatusIsSingleShot ==
    /\ [](status.sends \in {0, 1})
    /\ [][StatusStepIsSingleShot]_vars

\* A status request was answered after a session that had released a frame.
C22_Witness ==
    /\ status.sends = 1
    /\ Returned
    /\ CountOp("fb_return") = 1
    /\ leased = {}

\* The status response is rendered from what is read at the request.
StatusStepReadsFresh ==
    StatusRequestStep =>
        /\ status'.uptime * 1000 <= clock /\ clock < status'.uptime * 1000 + 1000
        /\ status'.heap \in FreeHeaps
        /\ ParseUnsigned(status'.uptimeDigits) = status'.uptime
        /\ ParseUnsigned(status'.heapDigits) = status'.heap
        /\ status'.complete
        /\ status'.len = StatusFixedLen + 2 * DeviceNameLen + IpLen + MacLen
                          + Len(status'.heapDigits) + Len(status'.uptimeDigits)
        /\ status'.res \in {ESP_OK} \cup HttpdErrs

(***************************************************************************)
(* C23: every status response carries the values read at that request:    *)
(* the free heap and the uptime, which is the millisecond clock at the     *)
(* request divided by 1000 and rounded down; with free heap 0 and uptime 0 *)
(* the whole document is rendered with the literal values 0, and what the  *)
(* handler returns is the result of the send, never a render error.        *)
(***************************************************************************)
C23_StatusReadsFresh ==
    /\ [](status.sends # 0 /\ status.heap = 0 /\ status.uptime = 0 =>
             /\ status.heapDigits = <<0>> /\ status.uptimeDigits = <<0>>
             /\ status.complete)
    /\ [][StatusStepReadsFresh]_vars

\* A status response three seconds and more after boot, with no free heap.
C23_Witness ==
    /\ status.sends = 1
    /\ status.uptime = 3
    /\ status.heap = 0
    /\ status.res = ESP_OK

\* The client is gone from position p of the trace on: every write made
\* after it fails.
GoneFrom(p) == \A i \in Idx : i > p /\ IsWrite(trace[i]) => trace[i].res # ESP_OK

AcquisitionsAfter(p) == Cardinality({i \in Idx : i > p /\ trace[i].op = "fb_get"})

\* At most one frame is acquired after the client went away; the failed
\* write is the last thing the session does but for the release; a session
\* that ended without a capture or conversion failure ended at a write;
\* nothing is held once the loop is left.
DisconnectEndsSession ==
    /\ \A p \in 0..Len(trace) : GoneFrom(p) => AcquisitionsAfter(p) <= 1
    /\ \A i \in Idx : IsWrite(trace[i]) /\ trace[i].res # ESP_OK =>
          /\ AcquisitionsAfter(i) = 0
          /\ \A j \in Idx : j > i =>
                /\ trace[j].frame = trace[i].frame
                /\ trace[j].op \in {"fb_return", "free", "log_disconnected"}
    /\ pc \in {"return", "idle"} /\ CountOp("fb_get") > 0
          /\ ~CaptureFailure /\ ~ConversionFailure => WriteFailure
    /\ pc \in {"return", "idle"} => leased = {} /\ allocated = {}

(***************************************************************************)
(* C25: once the client has disconnected, so that every later write fails, *)
(* and every call returns, the session is closed with no lease outstanding *)
(* after at most one further acquisition: the disconnect shows only at a   *)
(* write, the failed write ends the loop in its own iteration, and the     *)
(* frame of that iteration is released before the handler returns.         *)
(***************************************************************************)
C25_DisconnectClosesSession ==
    /\ []DisconnectEndsSession
    /\ WriteFailure ~> (Returned /\ leased = {} /\ allocated = {})

\* The client went away after the first frame was written: one more frame
\* was acquired, its header write failed, and the handler has returned.
C25_Witness ==
    /\ Returned
    /\ leased = {}
    /\ CompleteUnit(1)
    /\ \E p \in Idx : /\ trace[p].op = "send_boundary" /\ trace[p].frame = 1
                       /\ GoneFrom(p)
                       /\ AcquisitionsAfter(p) = 1
    /\ \E i \in Idx : trace[i].op = "send_hdr" /\ trace[i].frame = 2
                       /\ trace[i].res # ESP_OK

\* The part header has been rendered for the payload length _jpg_buf_len.
Rendered == pc = "rendered"

(***************************************************************************)
(* C24: for every payload length of 32 bits, 0 to 2^32 - 1 and so up to    *)
(* ten decimal digits, the rendered part header is shorter than the 128    *)
(* bytes given to snprintf: it is never truncated, and hlen, the number of *)
(* header bytes written to the transport, is the length of the complete    *)
(* header.                                                                 *)
(***************************************************************************)
C24_PartHeaderFits ==
    Rendered =>
        LET e == trace[1]
        IN  /\ Len(e.digits) \in 1..10
            /\ e.digits[1] = 0 => _jpg_buf_len = 0
            /\ \A i \in 1..Len(e.digits) : e.digits[i] \in 0..9
            /\ _jpg_buf_len >= 0 /\ _jpg_buf_len < 10 ^ 9 =>
                  ParseUnsigned(e.digits) = _jpg_buf_len
            /\ e.len = PartFixedLen + Len(e.digits)
            /\ e.len < PartBufSize
            /\ e.written = e.len

\* The header of a payload of 2^32 - 1 bytes, the longest there is.
C24_Witness ==
    /\ Rendered
    /\ _jpg_buf_len = -1
    /\ trace[1].digits = <<4, 2, 9, 4, 9, 6, 7, 2, 9, 5>>
    /\ trace[1].len = 56

\* The server task is inside stream_handler.
InStreamHandler ==
    pc \in {"get", "encode", "hdr", "payload", "boundary", "release",
            "check", "fps", "delay", "return"}

\* A request is taken up only when the task is in no handler, and while it
\* is in stream_handler no status is sent and no session begins.
HandlersRunOneAtATime ==
    /\ StatusRequestStep => pc = "idle" /\ pc' = "idle"
    /\ sessions' # sessions => pc = "idle" /\ sessions' = sessions + 1
    /\ (\E u \in waiting : u \notin waiting') => pc = "idle"
    /\ InStreamHandler => status' = status /\ sessions' = sessions

\* Both routes or none; one lease at most; no status sent during a stream;
\* a request that waited finds the session closed and nothing leased.
OneServerOneSession ==
    /\ routes \in {{}, {"/", "/stream"}}
    /\ Cardinality(leased) <= 1
    /\ InStreamHandler => status = NoStatus
    /\ (waiting # {} /\ pc = "idle") => (Returned /\ leased = {})

(***************************************************************************)
(* C27: "/" and "/stream" are registered on the one server started by      *)
(* startCameraServer, whose handlers run one at a time on its task: while  *)
(* a stream session is streaming no status request and no second stream    *)
(* request is handled, so at most one session is active and at most one    *)
(* camera lease is outstanding, and a status request made during a stream  *)
(* is answered only after that session was closed.                         *)
(***************************************************************************)
C27_HandlersRunOneAtATime ==
    /\ []OneServerOneSession
    /\ [][HandlersRunOneAtATime]_vars

\* A status request and a stream request made during a stream are still
\* waiting when its session, which delivered a frame, has returned.
C27_Witness ==
    /\ Returned
    /\ waiting = {"/", "/stream"}
    /\ status = NoStatus
    /\ CompleteUnit(1)
    /\ ENABLED IndexHandler

\* setup has returned, with the server started or without it.
SetupReturned == pc \notin {"setup", "wifi", "wifi_check", "boot"}

\* The server runs only on an initialised camera and a connected WiFi; a
\* failed camera initialisation leaves WiFi and server untouched.
ServerOnlyAfterCameraAndWifi ==
    /\ wifi_attempts \in 0..30
    /\ (pc \in {"boot", "idle"} \/ InStreamHandler \/ routes # {}) =>
          err = ESP_OK /\ wifi_status = WL_CONNECTED
    /\ err \notin {"none", ESP_OK} =>
          /\ pc = "halt"
          /\ wifi_status = "WL_IDLE_STATUS" /\ wifi_attempts = 0
          /\ routes = {}
    /\ pc = "halt" => routes = {} /\ sessions = 0 /\ trace = <<>>

\* setup counts a poll only when WiFi is not connected, gives up when the
\* status it reads last is not WL_CONNECTED, and does nothing once it gave up.
SetupGivesUp ==
    /\ wifi_attempts' > wifi_attempts =>
          /\ pc = "wifi" /\ wifi_attempts' = wifi_attempts + 1
          /\ wifi_status' # WL_CONNECTED
    /\ pc = "wifi" /\ pc' = "wifi_check" =>
          wifi_status' = WL_CONNECTED \/ wifi_attempts = 30
    /\ pc = "wifi_check" /\ wifi_status' # WL_CONNECTED => pc' = "halt" /\ routes' = {}
    /\ pc = "halt" => pc' = "halt" /\ routes' = {}

(***************************************************************************)
(* C28: setup starts the HTTP server only after esp_camera_init returned   *)
(* OK and WiFi was found connected within at most 30 polls of 500 ms: when *)
(* the camera initialisation fails neither the WiFi association nor the    *)
(* server is started, when WiFi is not connected after the 30 polls the    *)
(* server is not started, setup returns in every case, and so no stream    *)
(* session runs on an uninitialised camera.                                *)
(***************************************************************************)
C28_ServerOnlyAfterCameraAndWifi ==
    /\ []ServerOnlyAfterCameraAndWifi
    /\ [][SetupGivesUp]_vars
    /\ <>SetupReturned

\* WiFi was not connected after the thirty polls and setup returned
\* without the server.
C28_Witness ==
    /\ pc = "halt"
    /\ err = ESP_OK
    /\ wifi_attempts = MaxWifiAttempts
    /\ wifi_status = WL_DISCONNECTED
    /\ routes = {}

====
